---- MODULE Spec2Model ----
(***************************************************************************)
(* A model of datalinker: the HiPS list caches (dependencies/hips.py) and  *)
(* the DataLink links request (services/links.py, handlers/external.py).   *)
(*                                                                         *)
(* Text is a sequence of string fragments: "\n" is the newline, the        *)
(* fragment "hips_status" is the anchor the properties patch looks for,    *)
(* and every other fragment is a run of characters holding neither.        *)
(* The empty sequence is the empty string.  An optional value (Python's    *)
(* None or a value) is a sequence of length 0 or 1.                        *)
(***************************************************************************)
EXTENDS Integers, Sequences, FiniteSets, TLC

VARIABLES
    config,        \* the Config the process was started with (read-only)
    remote_docs,   \* the bodies the HiPS service may answer a 200 with
    remote,        \* properties URL -> the response the HiPS service is fixed to give (none: any)
    hips_list,     \* HiPSListDependency._hips_list : str | None
    hips_lists,    \* DatasetHiPSListDependency._hips_lists : dict[str, str]
    req,           \* the HiPS list requests in flight, one coroutine per slot
    first,         \* history: key -> text of the first get completed since the key's last invalidation
    over,          \* history: keys whose entry a build stored again after `first` was set
    cleared,       \* history: keys invalidated while populated and not accessed since
    started,       \* the number of HiPS list requests received so far
    lk,            \* the links request being served (its state is request-local)
    mw             \* the request CaseInsensitiveQueryMiddleware is passing on

hipsVars == <<config, remote_docs, remote, hips_list, hips_lists, req, first, over, cleared, started>>

vars == <<config, remote_docs, remote, hips_list, hips_lists, req, first, over, cleared, started, lk, mw>>

-----------------------------------------------------------------------------
(* Bounds *)

\* longest remote document, in fragments, of the fetch specification
MaxDocLen == 3

\* requests received in one run
MaxRequests == 4

\* query parameters in one request
MaxParams == 3

-----------------------------------------------------------------------------
(* Values *)

None == <<>>

Some(v) == <<v>>

NL == "\n"

HipsStatus == "hips_status"

\* Python truthiness of a str | None
Truthy(opt) == opt # None /\ opt[1] # <<>>

\* the coroutines that may run at once
Slots == {1, 2}

\* the names a client may ask for
Names == {"dp02", "dp1", "unknown"}

\* key of the default list in the history variables
DefaultKey == "(default)"

Keys == Names \cup {DefaultKey}

-----------------------------------------------------------------------------
(* Configuration: config.py *)

HiPSDatasetConfig(url, paths) == [url |-> url, paths |-> paths]

\* Config.has_hips_datasets
has_hips_datasets(c) == c.order # <<>>

\* Config.validate_default_hips_dataset: the configurations pydantic accepts
validate_default_hips_dataset(c) ==
    c.hips_default_dataset # "" =>
        /\ c.order # <<>>
        /\ c.hips_default_dataset \in DOMAIN c.hips_datasets

Dp02 == HiPSDatasetConfig(<<"https://hips.example/dp02", "/">>, <<"band_z", "color">>)

Dp1 == HiPSDatasetConfig(<<"https://hips.example/dp1">>, <<"band_r">>)

\* the default of Config.links_lifetime, timedelta(hours=1), in seconds
DefaultLinksLifetime == 3600

\* hips_datasets is a dict: `order` is its insertion order, which list(keys()) returns
ConfigOf(order, datasets, default) ==
    [order |-> order, hips_datasets |-> datasets, hips_default_dataset |-> default,
     links_lifetime |-> DefaultLinksLifetime]

NoDatasets == ConfigOf(<<>>, <<>>, "")

TwoDatasets(default) ==
    ConfigOf(<<"dp02", "dp1">>, [d \in {"dp02", "dp1"} |-> IF d = "dp02" THEN Dp02 ELSE Dp1], default)

Configs == {c \in {NoDatasets, TwoDatasets("dp02"), TwoDatasets("")} :
                validate_default_hips_dataset(c)}

-----------------------------------------------------------------------------
(* Metadata Fetcher: BaseHiPSListDependency._fetch_and_process_properties *)

\* a response of client.get: an httpx error raised (err), or a status and a text
Response(status, text) == [err |-> FALSE, status |-> status, text |-> text]

TransportError == [err |-> TRUE, status |-> 0, text |-> <<>>]

Outcomes(docs) ==
    {TransportError, Response(404, <<"Not Found">>)} \cup {Response(200, d) : d \in docs}

\* str.rstrip("/") on the fragments of a URL
RECURSIVE RStripSlash(_)
RStripSlash(s) ==
    IF s # <<>> /\ s[Len(s)] = "/" THEN RStripSlash(SubSeq(s, 1, Len(s) - 1)) ELSE s

\* url = str(base_url).rstrip("/") + f"/{hips_path}"
PropertiesUrl(base_url, hips_path) == RStripSlash(base_url) \o <<"/", hips_path>>

\* service_url = "{:25}= {}".format("hips_service_url", url)
ServiceUrlLine(url) == <<"hips_service_url         = ">> \o url

\* mutant: the pattern without re.MULTILINE, matching at the start of the text alone
MatchAtStart(text, i) == text[i] = HipsStatus /\ i = 1

\* the pattern "^hips_status" under re.MULTILINE: at the start of the text or of a line
MatchAt(text, i) == text[i] = HipsStatus /\ (i = 1 \/ text[i - 1] = NL)

\* re.sub("^hips_status", repl, text, flags=re.MULTILINE), from fragment i on
RECURSIVE ReSubFrom(_, _, _)
ReSubFrom(text, i, repl) ==
    IF i > Len(text) THEN <<>>
    ELSE (IF MatchAt(text, i) THEN repl ELSE <<text[i]>>) \o ReSubFrom(text, i + 1, repl)

\* the value _fetch_and_process_properties returns for a response: str | None
ProcessProperties(base_url, hips_path, r) ==
    IF r.status # 200 THEN None
    ELSE LET url == PropertiesUrl(base_url, hips_path)
         IN  Some(ReSubFrom(r.text, 1, ServiceUrlLine(url) \o <<NL, HipsStatus>>))

-----------------------------------------------------------------------------
(* List Aggregator: BaseHiPSListDependency.build_hips_list_from_paths *)

\* mutant: `if data is not None`, an empty document being appended like any other
AppendIfNotNone(lists, data) == IF data # None THEN Append(lists, data[1]) ELSE lists

\* if data: lists.append(data)
AppendIfData(lists, data) == IF Truthy(data) THEN Append(lists, data[1]) ELSE lists

\* mutant: the legacy join, a blank line between entries
RECURSIVE JoinListsBlank(_)
JoinListsBlank(lists) ==
    IF lists = <<>> THEN <<>>
    ELSE IF Len(lists) = 1 THEN lists[1]
    ELSE lists[1] \o <<NL, NL>> \o JoinListsBlank(Tail(lists))

\* "\n".join(lists)
RECURSIVE JoinLists(_)
JoinLists(lists) ==
    IF lists = <<>> THEN <<>>
    ELSE IF Len(lists) = 1 THEN lists[1]
    ELSE lists[1] \o <<NL>> \o JoinLists(Tail(lists))

-----------------------------------------------------------------------------
(* Federated List Cache: HiPSListDependency, DatasetHiPSListDependency *)

\* a slot with no request
Idle ==
    [pc |-> "idle", kind |-> "none", dataset |-> "", i |-> 0, lists |-> <<>>,
     data |-> None, got |-> <<>>, nfetch |-> 0, status |-> 0, body |-> <<>>,
     detail |-> <<>>, later |-> FALSE, afterInval |-> FALSE]

KeyOf(q) == IF q.kind = "default" THEN DefaultKey ELSE q.dataset

\* the family a request builds: the default dataset, or the one named in the path
FamilyOf(q) == IF q.kind = "default" THEN config.hips_default_dataset ELSE q.dataset

\* config.hips_datasets[name] raises KeyError for a name that is no key
Configured(name) == name \in DOMAIN config.hips_datasets

PathsOf(q) == config.hips_datasets[FamilyOf(q)].paths

BaseUrlOf(q) == config.hips_datasets[FamilyOf(q)].url

\* HiPSListDependency.__call__: `if not self._hips_list`
DefaultCached == Truthy(hips_list)

\* mutant: the test HiPSListDependency makes, an empty text counting as a miss
DatasetCachedTruthy(dataset) == dataset \in DOMAIN hips_lists /\ hips_lists[dataset] # <<>>

\* DatasetHiPSListDependency.__call__: `if dataset not in self._hips_lists`
DatasetCached(dataset) == dataset \in DOMAIN hips_lists

\* mutant: the guard looks only at whether any dataset is configured
NoDatasetsAtAll == ~has_hips_datasets(config)

\* HiPSListDependency._build_hips_list: the guard that returns "" with no fetch
NoDefaultDataset ==
    \/ ~has_hips_datasets(config)
    \/ config.hips_default_dataset = ""
    \/ config.hips_default_dataset \notin DOMAIN config.hips_datasets

\* repr of list(config.hips_datasets.keys())
RECURSIVE ReprItems(_)
ReprItems(names) ==
    IF names = <<>> THEN <<>>
    ELSE <<"'", names[1], "'">> \o (IF Len(names) > 1 THEN <<", ">> ELSE <<>>)
         \o ReprItems(Tail(names))

\* mutant: the detail names the dataset alone
NotConfiguredDetailBare(dataset) == <<"Dataset '", dataset, "' not configured.">>

\* the detail of the 404 for a dataset that is not configured
NotConfiguredDetail(dataset) ==
    <<"Dataset '", dataset, "' not configured. ", "Available datasets: ", "[">>
    \o ReprItems(config.order) \o <<"]">>

NoDatasetsDetail == <<"No HiPS datasets are configured">>

\* self._hips_list = text / self._hips_lists[dataset] = text
StoreDefault(text) == hips_list' = Some(text) /\ UNCHANGED hips_lists

\* mutant: the dict is replaced by one that holds this entry alone
StoreDatasetAlone(dataset, text) ==
    /\ hips_lists' = [k \in {dataset} |-> text]
    /\ UNCHANGED hips_list

\* mutant: the text is appended to the entry there is (self._hips_lists[dataset] += text)
StoreDatasetAppend(dataset, text) ==
    /\ hips_lists' = [k \in DOMAIN hips_lists \cup {dataset} |->
                        IF k # dataset THEN hips_lists[k]
                        ELSE IF dataset \in DOMAIN hips_lists THEN hips_lists[dataset] \o text
                        ELSE text]
    /\ UNCHANGED hips_list

StoreDataset(dataset, text) ==
    /\ hips_lists' = [k \in DOMAIN hips_lists \cup {dataset} |->
                        IF k = dataset THEN text ELSE hips_lists[k]]
    /\ UNCHANGED hips_list

Store(q, text) ==
    IF q.kind = "default" THEN StoreDefault(text) ELSE StoreDataset(q.dataset, text)

\* history: a get of key k ends with text; stored says whether this step wrote the entry
Completed(k, text, stored) ==
    /\ first' = IF first[k] = None THEN [first EXCEPT ![k] = Some(text)] ELSE first
    /\ over' = IF stored /\ first[k] # None THEN over \cup {k} ELSE over

\* history: a request for key k starts
Started(q) ==
    [q EXCEPT !.later = first[KeyOf(q)] # None, !.afterInval = KeyOf(q) \in cleared]

\* the request returns text with a 200
Return(q, text) == [q EXCEPT !.pc = "done", !.status = 200, !.body = text]

\* the request ends with an HTTPException(404, detail)
NotFound(q, detail) == [q EXCEPT !.pc = "done", !.status = 404, !.detail = detail]

\* an exception leaves the handler: the framework answers 500
Fault(q) == [q EXCEPT !.pc = "done", !.status = 500]

\* mutant: the entry is read before the assignment has stored the text
ReadBackBefore(q) ==
    IF q.kind = "default" THEN hips_list
    ELSE IF q.dataset \in DOMAIN hips_lists THEN Some(hips_lists[q.dataset]) ELSE None

\* `return self._hips_list` / `return self._hips_lists[dataset]`: the entry as it is
\* right after the assignment, read with no suspension point in between
ReadBack(q) ==
    IF q.kind = "default" THEN hips_list'
    ELSE IF q.dataset \in DOMAIN hips_lists' THEN Some(hips_lists'[q.dataset]) ELSE None

\* the request returns what it reads back; a missing entry is a KeyError, an absent
\* default list is no text to answer with
ReturnStored(q) ==
    IF ReadBack(q) = None THEN Fault(q) ELSE Return(q, ReadBack(q)[1])

\* the request suspends in `await client.get(...)` for path i
AwaitFetch(q, i) == [q EXCEPT !.pc = "fetch", !.i = i, !.nfetch = @ + 1]

\* no response is waiting to be sent (a response is sent as soon as it is ready)
Ready == \A r \in Slots : req[r].pc # "done"

\* a new request runs in the lowest free slot (which slot it takes changes nothing);
\* a run receives MaxRequests requests
Free(r) == started < MaxRequests /\ Ready /\ req[r].pc = "idle" /\ \A s \in Slots : s < r => req[s].pc # "idle"

\* GET /list: HiPSListDependency.__call__ up to its first suspension
DefaultCall(r) ==
    /\ Free(r)
    /\ LET q == Started([Idle EXCEPT !.kind = "default"])
       IN  /\ cleared' = cleared \ {DefaultKey}
           /\ IF DefaultCached
              THEN /\ req' = [req EXCEPT ![r] = Return(q, hips_list[1])]
                   /\ Completed(DefaultKey, hips_list[1], FALSE)
                   /\ UNCHANGED <<hips_list, hips_lists>>
              ELSE IF ~NoDefaultDataset /\ ~Configured(FamilyOf(q))
              THEN /\ req' = [req EXCEPT ![r] = Fault(q)]
                   /\ UNCHANGED <<hips_list, hips_lists, first, over>>
              ELSE IF NoDefaultDataset \/ PathsOf(q) = <<>>
              THEN /\ StoreDefault(<<>>)
                   /\ req' = [req EXCEPT ![r] = ReturnStored(q)]
                   /\ Completed(DefaultKey, <<>>, TRUE)
              ELSE /\ req' = [req EXCEPT ![r] = AwaitFetch(q, 1)]
                   /\ UNCHANGED <<hips_list, hips_lists, first, over>>
    /\ started' = started + 1
    /\ UNCHANGED <<lk, mw, remote, config, remote_docs>>

\* GET /{dataset}/list: DatasetHiPSListDependency.__call__ up to its first suspension
DatasetCall(r, dataset) ==
    /\ Free(r)
    /\ LET q == Started([Idle EXCEPT !.kind = "dataset", !.dataset = dataset])
       IN  /\ cleared' = cleared \ {dataset}
           /\ IF ~has_hips_datasets(config)
              THEN /\ req' = [req EXCEPT ![r] = NotFound(q, NoDatasetsDetail)]
                   /\ UNCHANGED <<hips_list, hips_lists, first, over>>
              ELSE IF ~Configured(dataset)
              THEN /\ req' = [req EXCEPT ![r] = NotFound(q, NotConfiguredDetail(dataset))]
                   /\ UNCHANGED <<hips_list, hips_lists, first, over>>
              ELSE IF DatasetCached(dataset)
              THEN /\ req' = [req EXCEPT ![r] = Return(q, hips_lists[dataset])]
                   /\ Completed(dataset, hips_lists[dataset], FALSE)
                   /\ UNCHANGED <<hips_list, hips_lists>>
              ELSE IF PathsOf(q) = <<>>
              THEN /\ StoreDataset(dataset, <<>>)
                   /\ req' = [req EXCEPT ![r] = ReturnStored(q)]
                   /\ Completed(dataset, <<>>, TRUE)
              ELSE /\ req' = [req EXCEPT ![r] = AwaitFetch(q, 1)]
                   /\ UNCHANGED <<hips_list, hips_lists, first, over>>
    /\ started' = started + 1
    /\ UNCHANGED <<lk, mw, remote, config, remote_docs>>

\* mutant: a handler of the exception stores what the build has joined so far
FetchRaisesStoring(r, q) ==
    /\ req' = [req EXCEPT ![r] = Fault(q)]
    /\ Store(q, JoinLists(q.lists))
    /\ UNCHANGED <<first, over>>

\* client.get raises: the exception leaves _fetch_and_process_properties,
\* build_hips_list_from_paths and __call__, none of which catches it, so the
\* assignment to the cache is not reached
FetchRaises(r, q) ==
    /\ req' = [req EXCEPT ![r] = Fault(q)]
    /\ UNCHANGED <<hips_list, hips_lists, first, over>>

\* client.get of path i completes with o: the rest of the loop body of
\* build_hips_list_from_paths, then the next client.get or the join, the store and the return
FetchReturn(r, o) ==
    /\ Ready
    /\ req[r].pc = "fetch"
    /\ o \in Outcomes(remote_docs)
    /\ LET url == PropertiesUrl(BaseUrlOf(req[r]), PathsOf(req[r])[req[r].i])
       IN  url \in DOMAIN remote => o = remote[url]
    /\ LET q == [req[r] EXCEPT !.got = Append(@, o)]
       IN  IF o.err
           THEN FetchRaises(r, q)
           ELSE LET data  == ProcessProperties(BaseUrlOf(q), PathsOf(q)[q.i], o)
                    lists == AppendIfData(q.lists, data)
                    q2    == [q EXCEPT !.data = data, !.lists = lists]
                IN  IF q.i < Len(PathsOf(q))
                    THEN /\ req' = [req EXCEPT ![r] = AwaitFetch(q2, q.i + 1)]
                         /\ UNCHANGED <<hips_list, hips_lists, first, over>>
                    ELSE /\ Store(q, JoinLists(lists))
                         /\ req' = [req EXCEPT ![r] = ReturnStored(q2)]
                         /\ Completed(KeyOf(q), JoinLists(lists), TRUE)
    /\ UNCHANGED <<lk, mw, remote, config, remote_docs, cleared, started>>

\* the response has been sent: the slot is free for the next request
Finish(r) ==
    /\ req[r].pc = "done"
    /\ req' = [req EXCEPT ![r] = Idle]
    /\ UNCHANGED <<lk, mw, remote, config, remote_docs, hips_list, hips_lists, first, over, cleared, started>>

\* history: key k has been invalidated
Invalidated(ks, populated) ==
    /\ first' = [k \in Keys |-> IF k \in ks THEN None ELSE first[k]]
    /\ over' = over \ ks
    /\ cleared' = cleared \cup populated
    /\ req' = [r \in Slots |-> IF KeyOf(req[r]) \in ks
                                THEN [req[r] EXCEPT !.later = FALSE] ELSE req[r]]

\* HiPSListDependency.clear_cache
clear_cache_default ==
    /\ Ready
    /\ hips_list' = None
    /\ Invalidated({DefaultKey}, IF hips_list # None THEN {DefaultKey} ELSE {})
    /\ UNCHANGED <<lk, mw, remote, config, remote_docs, hips_lists, started>>

\* DatasetHiPSListDependency.clear_cache
clear_cache ==
    /\ Ready
    /\ hips_lists' = <<>>
    /\ Invalidated(Names, DOMAIN hips_lists)
    /\ UNCHANGED <<lk, mw, remote, config, remote_docs, hips_list, started>>

\* mutant: the pop misses the key, the entry stays
clear_dataset_cache_miss(dataset) ==
    /\ Ready
    /\ hips_lists' = hips_lists
    /\ Invalidated({dataset}, DOMAIN hips_lists \cap {dataset})
    /\ UNCHANGED <<lk, mw, remote, config, remote_docs, hips_list, started>>

\* DatasetHiPSListDependency.clear_dataset_cache
clear_dataset_cache(dataset) ==
    /\ Ready
    /\ hips_lists' = [k \in DOMAIN hips_lists \ {dataset} |-> hips_lists[k]]
    /\ Invalidated({dataset}, DOMAIN hips_lists \cap {dataset})
    /\ UNCHANGED <<lk, mw, remote, config, remote_docs, hips_list, started>>

\* mutant: a handler of the cancellation stores what the build has joined so far
CancelStoring(r) ==
    /\ Ready
    /\ req[r].pc = "fetch"
    /\ req' = [req EXCEPT ![r].pc = "cancelled"]
    /\ Store(req[r], JoinLists(req[r].lists))
    /\ UNCHANGED <<lk, mw, remote, config, remote_docs, first, over, cleared, started>>

\* the request is cancelled while suspended in `await client.get(...)`: CancelledError is
\* raised there and leaves build_hips_list_from_paths and __call__, which have no
\* except or finally clause, so the assignment to the cache is never reached
Cancel(r) ==
    /\ Ready
    /\ req[r].pc = "fetch"
    /\ req' = [req EXCEPT ![r].pc = "cancelled"]
    /\ UNCHANGED <<lk, mw, remote, config, remote_docs, hips_list, hips_lists, first, over, cleared, started>>

\* the cancelled coroutine is gone: no response is sent
Abandon(r) ==
    /\ req[r].pc = "cancelled"
    /\ req' = [req EXCEPT ![r] = Idle]
    /\ UNCHANGED <<lk, mw, remote, config, remote_docs, hips_list, hips_lists, first, over, cleared, started>>

-----------------------------------------------------------------------------
(* DataLink links request: services/links.py and handlers/external.py *)

\* a URL is the text <<scheme, "://", netloc, path>>, which urlparse takes apart
Url(scheme, netloc, path) == <<scheme, "://", netloc, path>>

SchemeOf(url) == url[1]

NetlocOf(url) == url[3]

PathOf(url) == url[4]

\* an lsst.resources.ResourcePath, as Butler.getURI returns it
ResourcePath(scheme, netloc, path) == [scheme |-> scheme, netloc |-> netloc, path |-> path]

\* str(image_uri)
Str(uri) == Url(uri.scheme, uri.netloc, uri.path)

\* image_uri.size()
SizeOf(uri) == 1234

\* the locations Butler.getURI may return: signed by the Butler server, or raw
Locations ==
    {ResourcePath("https", "presigned-url.example.com", "/image?X-Amz-Signature=abcdef"),
     ResourcePath("http", "butler.example.com", "/image"),
     ResourcePath("s3", "some-bucket", "/image"),
     ResourcePath("gs", "some-bucket", "/image"),
     ResourcePath("file", "", "/image")}

\* ref.datasetType.name
DatasetTypes == {"raw", "calexp", "deepCoadd"}

KnownUuid == "58f56d2e-cfd8-44e7-a343-20ebdc1f4127"

OtherUuid == "00000000-0000-4000-8000-000000000000"

\* the Butler repositories there are, and the datasets in each
KnownLabels == {"dp02"}

KnownKeys == {KnownUuid}

\* the identifiers a client may send, as <<"butler", "://", label, "/", key>> or less
Ids ==
    {<<"butler", "://", l, "/", k>> : l \in {"dp02", "invalid-repo"}, k \in {KnownUuid, OtherUuid}}
    \cup {<<"butler", "://", "dp02", "/", "abc-def">>,
          <<"butler", "://", "dp02", "/", "Not-A-UUID">>,
          <<"butler", "://", "dp02", "/">>,
          <<"butler", "://", "dp02">>,
          <<"butler", "://">>,
          <<"https", "://", "dp02", "/", KnownUuid>>,
          <<"blah-blah">>}

\* keys made of the characters a-f, 0-9 and "-" alone
HexDashKeys == {KnownUuid, OtherUuid, "abc-def"}

\* keys that uuid.UUID accepts
UuidKeys == {KnownUuid, OtherUuid}

\* an identifier Butler.parse_dataset_uri accepts: butler://label/uuid
WellFormed(id) ==
    /\ Len(id) = 5 /\ id[1] = "butler" /\ id[2] = "://" /\ id[3] # "" /\ id[4] = "/"
    /\ id[5] \in UuidKeys

\* the Query pattern "^butler://[^/]+/[a-f0-9-]+$" of the links handler
MatchesIdPattern(id) ==
    /\ Len(id) = 5 /\ id[1] = "butler" /\ id[2] = "://" /\ id[3] # "" /\ id[4] = "/"
    /\ id[5] \in HexDashKeys

\* the cutout service discovery knows of, config.cutout_sync_url in the handler
CutoutSyncUrl == Url("https", "data.example.com", "/api/cutout/sync")

StorageBackends == {"GCS", "S3"}

\* expires_in = timedelta(hours=1), in seconds
ExpiresIn == 3600

\* a slot with no links request
NoLinks ==
    [pc |-> "idle", via |-> "none", id |-> <<>>, cutout_sync_url |-> None,
     dataset_type |-> "", image_uri |-> None, status |-> 0, result |-> None,
     raised |-> "", detail |-> <<>>, headers |-> <<>>,
     signer |-> "none", method |-> "", expiry |-> 0, steps |-> <<>>]

\* DataLink(id, image_url, image_size, cutout_sync_url)
DataLink(id, image_url, image_size, cutout_sync_url) ==
    [id |-> id, image_url |-> image_url, image_size |-> image_size,
     cutout_sync_url |-> cutout_sync_url]

\* mutant: the URL is kept whatever the dataset type
CutoutForAnyType(dataset_type, cutout_sync_url) == cutout_sync_url

\* the cutout URL of a result: suppressed for raw images
CutoutFor(dataset_type, cutout_sync_url) ==
    IF dataset_type = "raw" THEN None ELSE cutout_sync_url

\* mutant: every location that is not a local file counts as signed
IsSignedNotFile(image_uri) == image_uri.scheme # "file"

\* mutant: only https counts as signed
IsSignedHttpsOnly(image_uri) == image_uri.scheme = "https"

\* the scheme test of build_datalink and of the links handler
IsSigned(image_uri) == image_uri.scheme \in {"https", "http"}

\* IdentifierMalformedError.__init__(id): the message of the exception
IdentifierMalformedError(id) == <<"Unable to extract valid dataset ID from ">> \o id

\* the msg build_datalink gives IdentifierMalformedError: a plain string literal, not an
\* f-string, so the text "{id}" stays in it as written
MalformedMsg == <<"Unable to extract valid dataset ID from ", "{id}">>

\* f"Repository for {id} does not exist"
RepositoryMsg(id) == <<"Repository for ">> \o id \o <<" does not exist">>

\* f"Dataset {id} does not exist"
DatasetMsg(id) == <<"Dataset ">> \o id \o <<" does not exist">>

\* ButlerUriNotSignedError.__init__(url): the message of the exception
ButlerUriNotSignedError(url) ==
    <<"Image URL ">> \o url \o <<" from Butler server was not signed">>

\* ClientRequestError's status, which IdentifierMalformedError keeps, and the status of
\* a query parameter FastAPI rejects
MalformedStatus == 422

\* IdentifierNotFoundError.status_code, and the HTTPException of the handler
NotFoundStatus == 404

\* any other exception that leaves the route
FaultStatus == 500

\* mutant: IdentifierNotFoundError without its status_code, so ClientRequestError's
StatusOfNoOverride(raised) ==
    IF raised \in {"IdentifierMalformedError", "RequestValidationError",
                   "IdentifierNotFoundError"}
    THEN MalformedStatus
    ELSE IF raised = "HTTPException" THEN NotFoundStatus
    ELSE FaultStatus

\* the status the client gets when this exception leaves the route
StatusOf(raised) ==
    IF raised \in {"IdentifierMalformedError", "RequestValidationError"}
    THEN MalformedStatus
    ELSE IF raised \in {"IdentifierNotFoundError", "HTTPException"}
    THEN NotFoundStatus
    ELSE FaultStatus

\* the request ends with an exception, after these steps
Raise(q, raised, detail, steps) ==
    [q EXCEPT !.pc = "done", !.raised = raised, !.status = StatusOf(raised),
              !.detail = detail, !.steps = @ \o steps]

\* mutant: discovery is asked whether or not the identifier parses
get_cutout_sync_url_unparsed(id, found, fails) ==
    /\ lk.pc = "idle"
    /\ lk' = [NoLinks EXCEPT !.via = "service", !.id = id, !.pc = "discovered",
                             !.cutout_sync_url = found, !.steps = <<"parse", "discover">>]
    /\ UNCHANGED <<hipsVars, mw>>

\* LinksService.get_cutout_sync_url: the async dependency run before build_datalink;
\* found is what discovery answers, and the lookup may raise
get_cutout_sync_url(id, found, fails) ==
    /\ lk.pc = "idle"
    /\ LET q == [NoLinks EXCEPT !.via = "service", !.id = id]
       IN  IF ~WellFormed(id)
           THEN \* parse_dataset_uri raised: return None
                lk' = [q EXCEPT !.pc = "discovered", !.steps = <<"parse">>]
           ELSE IF fails
           THEN \* url_for_data raised, and nothing catches it
                lk' = Raise(q, "DiscoveryError", <<>>, <<"parse", "discover">>)
           ELSE lk' = [q EXCEPT !.pc = "discovered", !.cutout_sync_url = found,
                                !.steps = <<"parse", "discover">>]
    /\ UNCHANGED <<hipsVars, mw>>

\* LinksService.build_datalink, with what the Butler holds for the identifier and
\* whether the Butler fails for another reason (its database cannot be reached)
build_datalink(dataset_type, image_uri, butler_fails) ==
    /\ lk.pc = "discovered"
    /\ LET id == lk.id
       IN  IF ~WellFormed(id)
           THEN \* ValueError: IdentifierMalformedError(msg)
                lk' = Raise(lk, "IdentifierMalformedError",
                            IdentifierMalformedError(MalformedMsg), <<"resolve">>)
           ELSE IF id[3] \notin KnownLabels
           THEN \* FileNotFoundError: IdentifierNotFoundError(msg)
                lk' = Raise(lk, "IdentifierNotFoundError", RepositoryMsg(id), <<"resolve">>)
           ELSE IF butler_fails
           THEN \* any other exception of get_dataset_from_uri leaves build_datalink
                lk' = Raise(lk, "ButlerFailure", <<>>, <<"resolve">>)
           ELSE IF id[5] \notin KnownKeys
           THEN \* `if not ref`: IdentifierNotFoundError
                lk' = Raise(lk, "IdentifierNotFoundError", DatasetMsg(id), <<"resolve">>)
           ELSE IF ~IsSigned(image_uri)
           THEN \* ButlerUriNotSignedError, which nothing catches
                lk' = Raise([lk EXCEPT !.dataset_type = dataset_type,
                                       !.image_uri = Some(image_uri)],
                            "ButlerUriNotSignedError",
                            ButlerUriNotSignedError(Str(image_uri)),
                            <<"resolve", "locate">>)
           ELSE lk' = [lk EXCEPT
                    !.pc = "done", !.status = 200,
                    !.dataset_type = dataset_type,
                    !.image_uri = Some(image_uri),
                    !.steps = @ \o <<"resolve", "locate", "assemble">>,
                    !.result = Some(DataLink(id, Str(image_uri), SizeOf(image_uri),
                                    CutoutFor(dataset_type, lk.cutout_sync_url)))]
    /\ UNCHANGED <<hipsVars, mw>>

\* _upload_to_gcs: blob.generate_signed_url(version="v4", expiration=expiry, method="GET")
upload_to_gcs(image_uri, expiry) ==
    <<"https", "://", "storage.googleapis.com",
      "/" \o NetlocOf(image_uri) \o PathOf(image_uri), "?X-Goog-Expires=", ToString(expiry)>>

\* _upload_to_s3: generate_presigned_url("get_object", ..., ExpiresIn=expiry)
upload_to_s3(image_uri, expiry) ==
    <<"https", "://", "s3.amazonaws.com",
      "/" \o NetlocOf(image_uri) \o PathOf(image_uri), "?X-Amz-Expires=", ToString(expiry)>>

\* the headers of the handler's TemplateResponse: media_type, and no headers argument
TemplateResponseHeaders ==
    [h \in {"Content-Type"} |-> "application/x-votable+xml"]

\* the links handler of handlers/external.py, with what the Butler holds for the
\* identifier, the configured storage backend, whether the signing call fails and
\* whether the Butler fails for another reason
links(id, dataset_type, image_uri, storage_backend, fails, butler_fails) ==
    /\ lk.pc = "idle"
    /\ LET q == [NoLinks EXCEPT !.via = "handler", !.id = id]
       IN  IF ~MatchesIdPattern(id)
           THEN \* the Query pattern rejects the parameter
                lk' = Raise(q, "RequestValidationError", <<"string_pattern_mismatch">>,
                            <<"parse">>)
           ELSE IF id[3] \notin KnownLabels
           THEN \* KeyError from create_butler: HTTPException(404)
                lk' = Raise(q, "HTTPException", RepositoryMsg(id), <<"parse", "resolve">>)
           ELSE IF id[5] \notin UuidKeys
           THEN \* UUID(uuid) raises ValueError, which nothing catches
                lk' = Raise(q, "ValueError", <<>>, <<"parse", "resolve">>)
           ELSE IF butler_fails
           THEN \* any other exception of create_butler or get_dataset
                lk' = Raise(q, "ButlerFailure", <<>>, <<"parse", "resolve">>)
           ELSE IF id[5] \notin KnownKeys
           THEN \* `if not ref`: HTTPException(404)
                lk' = Raise(q, "HTTPException", DatasetMsg(id), <<"parse", "resolve">>)
           ELSE IF ~IsSigned(image_uri) /\ fails
           THEN \* the signing call raises
                lk' = Raise([q EXCEPT !.dataset_type = dataset_type,
                                      !.image_uri = Some(image_uri),
                                      !.signer = storage_backend, !.method = "GET",
                                      !.expiry = ExpiresIn],
                            "SigningError", <<>>,
                            <<"parse", "resolve", "locate", "sign">>)
           ELSE LET image_url ==
                        IF IsSigned(image_uri) THEN Str(image_uri)
                        ELSE IF storage_backend = "GCS"
                        THEN upload_to_gcs(Str(image_uri), ExpiresIn)
                        ELSE upload_to_s3(Str(image_uri), ExpiresIn)
                IN  lk' = [q EXCEPT
                        !.pc = "done", !.status = 200,
                        !.headers = TemplateResponseHeaders,
                        !.dataset_type = dataset_type,
                        !.image_uri = Some(image_uri),
                        !.signer = IF IsSigned(image_uri) THEN "none" ELSE storage_backend,
                        !.method = IF IsSigned(image_uri) THEN "" ELSE "GET",
                        !.expiry = IF IsSigned(image_uri) THEN 0 ELSE ExpiresIn,
                        !.steps = <<"parse", "resolve", "locate">>
                                  \o (IF IsSigned(image_uri) THEN <<>> ELSE <<"sign">>)
                                  \o <<"assemble">>,
                        !.result = Some(DataLink(id, image_url, SizeOf(image_uri),
                                        CutoutFor(dataset_type, Some(CutoutSyncUrl))))]
    /\ UNCHANGED <<hipsVars, mw>>

\* the response has been sent
LinksFinish ==
    /\ lk.pc = "done"
    /\ lk' = NoLinks
    /\ UNCHANGED <<hipsVars, mw>>

-----------------------------------------------------------------------------
(* CaseInsensitiveQueryMiddleware: middleware.py *)

\* a query string is the list of its (name, value) pairs, as parse_qsl reads it and
\* urlencode writes it: the pairs survive that round trip
Pair(k, v) == <<k, v>>

\* the parameter names a client may send, and str.lower of each
ParamNames == {"id", "ID", "iD", "responseformat", "RESPONSEFORMAT"}

Lower(k) ==
    IF k \in {"id", "ID", "iD"} THEN "id" ELSE "responseformat"

ParamValues == {"butler://dp02/a", "butler://dp02/b", "votable"}

\* every query string of at most n parameters
RECURSIVE Queries(_)
Queries(n) ==
    IF n = 0 THEN {<<>>}
    ELSE Queries(n - 1) \cup
         {Append(q, Pair(k, v)) : q \in {e \in Queries(n - 1) : Len(e) = n - 1},
                                  k \in ParamNames, v \in ParamValues}

\* QueryParams.get(key): the dict of the multi-dict holds the last value of a key
Get(multi_items, key) ==
    LET at == {i \in DOMAIN multi_items : multi_items[i][1] = key}
    IN  IF at = {} THEN None
        ELSE Some(multi_items[CHOOSE i \in at : \A j \in at : j <= i][2])

\* QueryParams.items(): the items of the dict {k: v for k, v in multi_items}, one pair
\* for each distinct key, in the order the keys first appear, with the key's last value
RECURSIVE Items(_)
Items(multi_items) ==
    IF multi_items = <<>> THEN <<>>
    ELSE LET k == multi_items[1][1]
             rest == SelectSeq(Tail(multi_items), LAMBDA p : p[1] # k)
         IN  <<Pair(k, Get(multi_items, k)[1])>> \o Items(rest)

\* params = [(k.lower(), v) for k, v in request.query_params.items()], which becomes
\* request.scope["query_string"]
LowercasedQuery(query) ==
    [i \in DOMAIN Items(query) |-> Pair(Lower(Items(query)[i][1]), Items(query)[i][2])]

\* what FastAPI hands the links handler from the query string in the scope: the
\* parameters id and responseformat, looked up by their lower-case names
HandlerParams(query_string) ==
    [id |-> Get(query_string, "id"),
     responseformat |-> Get(query_string, "responseformat")]

\* no request in the middleware
NoRequest == [pc |-> "idle", query |-> <<>>, query_string |-> <<>>, params |-> <<>>]

\* CaseInsensitiveQueryMiddleware.dispatch up to call_next, and the parameters the
\* handler is called with
dispatch(query) ==
    /\ mw.pc = "idle"
    /\ mw' = [pc |-> "called", query |-> query,
              query_string |-> LowercasedQuery(query),
              params |-> HandlerParams(LowercasedQuery(query))]
    /\ UNCHANGED <<hipsVars, lk>>

\* call_next returns and the response goes back to the client
DispatchReturn ==
    /\ mw.pc = "called"
    /\ mw' = NoRequest
    /\ UNCHANGED <<hipsVars, lk>>

-----------------------------------------------------------------------------
(* Specifications *)

\* the documents the HiPS service serves in the cache specifications
CacheDocs == {<<>>, <<HipsStatus>>}

InitWith(configs, docs) ==
    /\ config \in configs
    /\ remote_docs = docs
    /\ remote = <<>>
    /\ hips_list = None
    /\ hips_lists = <<>>
    /\ req = [r \in Slots |-> Idle]
    /\ first = [k \in Keys |-> None]
    /\ over = {}
    /\ cleared = {}
    /\ started = 0
    /\ lk = NoLinks
    /\ mw = NoRequest

Init == InitWith(Configs, CacheDocs)

Next ==
    \/ \E r \in Slots : DefaultCall(r)
    \/ \E r \in Slots, d \in Names : DatasetCall(r, d)
    \/ \E r \in Slots, o \in Outcomes(remote_docs) : FetchReturn(r, o)
    \/ \E r \in Slots : Finish(r)
    \/ clear_cache_default
    \/ clear_cache
    \/ \E d \in Names : clear_dataset_cache(d)

\* concurrent requests, interleaved at their suspension points
Spec == Init /\ [][Next]_vars

\* no request is suspended in a fetch
Quiet == \A r \in Slots : req[r].pc # "fetch"

\* a sequential run: a request or an invalidation starts only when none is in progress
SeqNext ==
    \/ Quiet /\ \E r \in Slots : DefaultCall(r)
    \/ Quiet /\ \E r \in Slots, d \in Names : DatasetCall(r, d)
    \/ \E r \in Slots, o \in Outcomes(remote_docs) : FetchReturn(r, o)
    \/ \E r \in Slots : Finish(r)
    \/ Quiet /\ clear_cache_default
    \/ Quiet /\ clear_cache
    \/ Quiet /\ \E d \in Names : clear_dataset_cache(d)

Dp03 == HiPSDatasetConfig(<<"https://hips.example/dp03", "/">>, <<"p1", "p2", "p3">>)

Empty == HiPSDatasetConfig(<<"https://hips.example/empty">>, <<>>)

ThreePaths(default) ==
    ConfigOf(<<"dp02", "dp1">>, [d \in {"dp02", "dp1"} |-> IF d = "dp02" THEN Dp03 ELSE Empty], default)

SeqConfigs ==
    {c \in {NoDatasets, TwoDatasets("dp02"), TwoDatasets("dp1"), TwoDatasets(""),
            ThreePaths("dp02"), ThreePaths("dp1")} : validate_default_hips_dataset(c)}

SeqDocs == {<<>>, <<"creator_did">>, <<HipsStatus>>}

SeqInit == InitWith(SeqConfigs, SeqDocs)

SeqSpec == SeqInit /\ [][SeqNext]_vars

\* every text of at most n fragments over the three kinds of fragment
RECURSIVE AllDocs(_)
AllDocs(n) ==
    IF n = 0 THEN {<<>>}
    ELSE AllDocs(n - 1) \cup
         {Append(d, f) : d \in {e \in AllDocs(n - 1) : Len(e) = n - 1},
                         f \in {NL, HipsStatus, "creator_did"}}

OnePath ==
    ConfigOf(<<"dp1">>, [d \in {"dp1"} |-> Dp1], "dp1")

FetchInit == InitWith({OnePath}, AllDocs(MaxDocLen))

FetchNext ==
    \/ Quiet /\ \E r \in Slots : DatasetCall(r, "dp1")
    \/ \E r \in Slots, o \in Outcomes(remote_docs) : FetchReturn(r, o)
    \/ \E r \in Slots : Finish(r)
    \/ Quiet /\ clear_cache

\* one request at a time against a service that may serve any short document
FetchSpec == FetchInit /\ [][FetchNext]_vars

LinksNext ==
    \/ \E id \in Ids, found \in {None, Some(CutoutSyncUrl)}, fails \in BOOLEAN :
            get_cutout_sync_url(id, found, fails)
    \/ \E t \in DatasetTypes, u \in Locations, butler_fails \in BOOLEAN :
            build_datalink(t, u, butler_fails)
    \/ \E id \in Ids, t \in DatasetTypes, u \in Locations, b \in StorageBackends,
            fails \in BOOLEAN, butler_fails \in BOOLEAN :
            links(id, t, u, b, fails, butler_fails)
    \/ LinksFinish

\* the values linksLifetime is configured with, in seconds
LinksLifetimes == {1800, DefaultLinksLifetime, 7200}

LinksConfigs == {[NoDatasets EXCEPT !.links_lifetime = n] : n \in LinksLifetimes}

LinksInit == InitWith(LinksConfigs, {})

\* links requests: their state is request-local, so one at a time shows them all
LinksSpec == LinksInit /\ [][LinksNext]_vars

FixedInit ==
    /\ config = TwoDatasets("dp02")
    /\ remote_docs = CacheDocs
    /\ remote \in [{PropertiesUrl(Dp02.url, "band_z"), PropertiesUrl(Dp02.url, "color"),
                    PropertiesUrl(Dp1.url, "band_r")} -> Outcomes(CacheDocs)]
    /\ hips_list = None
    /\ hips_lists = <<>>
    /\ req = [r \in Slots |-> Idle]
    /\ first = [k \in Keys |-> None]
    /\ over = {}
    /\ cleared = {}
    /\ started = 0
    /\ lk = NoLinks
    /\ mw = NoRequest

FixedNext ==
    \/ \E r \in Slots : DefaultCall(r)
    \/ \E r \in Slots, d \in {"dp02", "dp1"} : DatasetCall(r, d)
    \/ \E r \in Slots, o \in Outcomes(remote_docs) : FetchReturn(r, o)
    \/ \E r \in Slots : Finish(r)

\* concurrent requests against a HiPS service whose response for each URL is fixed
FixedSpec == FixedInit /\ [][FixedNext]_vars

RaceInit == InitWith({TwoDatasets("dp02")}, CacheDocs)

\* concurrent requests and invalidations with two families configured, dp02 the default
RaceSpec == RaceInit /\ [][Next]_vars

CancelInit == InitWith({TwoDatasets("dp02")}, CacheDocs)

CancelNext ==
    \/ \E r \in Slots : DefaultCall(r)
    \/ \E r \in Slots, d \in {"dp02", "dp1"} : DatasetCall(r, d)
    \/ \E r \in Slots, o \in Outcomes(remote_docs) : FetchReturn(r, o)
    \/ \E r \in Slots : Finish(r)
    \/ \E r \in Slots : Cancel(r)
    \/ \E r \in Slots : Abandon(r)

\* concurrent requests, any of which may be cancelled while its build is in flight
CancelSpec == CancelInit /\ [][CancelNext]_vars

MiddlewareNext ==
    \/ \E query \in Queries(MaxParams) : dispatch(query)
    \/ DispatchReturn

MiddlewareInit == InitWith({NoDatasets}, {})

\* requests through the middleware, one at a time
MiddlewareSpec == MiddlewareInit /\ [][MiddlewareNext]_vars

-----------------------------------------------------------------------------
(* Claims *)

IsDone(r) == req[r].pc = "done"

\* C1 as stated: once a get_for_family(F) has completed, with no invalidation of F
\* since, every later get_for_family(F) issues no fetch and returns exactly the text
\* the first call returned.
C1_LaterGetReturnsFirstText ==
    \A r \in Slots :
        (IsDone(r) /\ req[r].kind = "dataset" /\ req[r].later) =>
            /\ req[r].status = 200
            /\ req[r].nfetch = 0
            /\ Some(req[r].body) = first[req[r].dataset]

\* C1 as amended: such a later get issues no fetch and returns the cached text, which is
\* the first call's text unless a build of F already in flight when the first call
\* completed has stored its own result since (last write wins).
C1_LaterGetServedFromCache ==
    \A r \in Slots :
        (IsDone(r) /\ req[r].kind = "dataset" /\ req[r].later) =>
            /\ req[r].status = 200
            /\ req[r].nfetch = 0
            /\ req[r].dataset \in DOMAIN hips_lists
            /\ req[r].body = hips_lists[req[r].dataset]
            /\ req[r].dataset \notin over => Some(req[r].body) = first[req[r].dataset]

\* a later get of a family whose first build gave the empty aggregate
C1_Witness ==
    \E r \in Slots :
        /\ IsDone(r) /\ req[r].kind = "dataset" /\ req[r].later
        /\ req[r].dataset \notin over
        /\ PathsOf(req[r]) # <<>>
        /\ first[req[r].dataset] = Some(<<>>)
        /\ req[r].body = <<>>

\* C2: once a get_default has completed, with no invalidation since, every later
\* get_default issues no fetch and returns the stored text, an empty text included.
C2_LaterDefaultServedFromCache ==
    \A r \in Slots :
        (req[r].kind = "default" /\ req[r].later) =>
            /\ req[r].nfetch = 0
            /\ IsDone(r) => Some(req[r].body) = hips_list

\* C2's case: the default list was built empty and get_default is called again
C2_Reached ==
    \E r \in Slots :
        req[r].kind = "default" /\ req[r].later /\ first[DefaultKey] = Some(<<>>)

\* no default family is configured: no family at all, or an empty default name
NoDefaultConfigured == config.order = <<>> \/ config.hips_default_dataset = ""

\* the paths a request of this kind and family is to fetch
PathsOfKey(q) ==
    IF q.kind = "default" /\ NoDefaultConfigured THEN <<>> ELSE PathsOf(q)

Last(s) == s[Len(s)]

\* the aggregate the specification asks for, from the responses got for paths i..:
\* the documents of the paths that answered 200 with a text, in order, a newline between
RECURSIVE AggregateFrom(_, _)
AggregateFrom(q, i) ==
    IF i > Len(q.got) THEN <<>>
    ELSE LET rest == AggregateFrom(q, i + 1)
             o    == q.got[i]
         IN  IF o.err \/ o.status # 200 \/ o.text = <<>> THEN rest
             ELSE LET doc == ProcessProperties(BaseUrlOf(q), PathsOf(q)[i], o)[1]
                  IN  IF rest = <<>> THEN doc ELSE doc \o <<NL>> \o rest

\* the entry of the cache a request reads and writes: str | None
EntryOf(q) ==
    IF q.kind = "default" THEN hips_list
    ELSE IF q.dataset \in DOMAIN hips_lists THEN Some(hips_lists[q.dataset]) ELSE None

Range(s) == {s[i] : i \in DOMAIN s}

\* C4: a get_for_family of a name that is no configured family ends in a 404 whose
\* message holds the name and every configured name (with no family configured it is
\* a 404 too); it fetches nothing and creates or changes no cache entry.
C4_UnknownFamilyNotFound ==
    /\ [](\A r \in Slots :
            (IsDone(r) /\ req[r].kind = "dataset" /\ ~Configured(req[r].dataset)) =>
                /\ req[r].status = 404
                /\ req[r].nfetch = 0
                /\ req[r].dataset \notin DOMAIN hips_lists
                /\ has_hips_datasets(config) =>
                    /\ req[r].dataset \in Range(req[r].detail)
                    /\ DOMAIN config.hips_datasets \subseteq Range(req[r].detail))
    /\ [][\A r \in Slots :
            (req[r].pc = "idle" /\ req'[r].pc = "done" /\ req'[r].status = 404) =>
                UNCHANGED <<hips_list, hips_lists>>]_vars

\* an unknown name was asked for while families are configured and one is cached
C4_Witness ==
    \E r \in Slots :
        /\ IsDone(r) /\ req[r].status = 404 /\ req[r].dataset = "unknown"
        /\ has_hips_datasets(config)
        /\ hips_lists # <<>>

C6_AggregateOfSuccessfulPaths ==
    \A r \in Slots :
        (/\ IsDone(r) /\ req[r].status = 200
         /\ req[r].nfetch > 0 \/ PathsOfKey(req[r]) = <<>>) =>
            /\ Len(req[r].got) = Len(PathsOfKey(req[r]))
            /\ req[r].body = AggregateFrom(req[r], 1)
            /\ (\A i \in DOMAIN req[r].got : req[r].got[i].status # 200) => req[r].body = <<>>

\* paths [p1, p2, p3] where p2 fails and p1, p3 succeed: the aggregate is p1's document,
\* a newline, p3's document
C6_Witness ==
    \E r \in Slots :
        /\ IsDone(r) /\ req[r].status = 200 /\ Len(req[r].got) = 3
        /\ req[r].got[1] = Response(200, <<"creator_did">>)
        /\ req[r].got[2].status = 404
        /\ req[r].got[3] = Response(200, <<HipsStatus>>)
        /\ req[r].body = <<"creator_did", NL>>
                         \o ServiceUrlLine(<<"https://hips.example/dp03", "/", "p3">>)
                         \o <<NL, HipsStatus>>

\* C7: within a build, the failure of one path's retrieval never keeps the remaining
\* paths from being fetched and never ends the build or the request in an error.
C7_FailedFetchNeverAborts ==
    \A r \in Slots :
        (IsDone(r) /\ req[r].nfetch > 0) =>
            /\ req[r].status = 200
            /\ req[r].nfetch = Len(PathsOfKey(req[r]))

\* the lines of a text: the runs of fragments between its newlines
RECURSIVE SplitLines(_)
SplitLines(text) ==
    IF \A i \in DOMAIN text : text[i] # NL THEN <<text>>
    ELSE LET k == CHOOSE i \in DOMAIN text : text[i] = NL /\ \A j \in 1..(i - 1) : text[j] # NL
         IN  <<SubSeq(text, 1, k - 1)>> \o SplitLines(SubSeq(text, k + 1, Len(text)))

\* the text that has these lines
RECURSIVE JoinLines(_)
JoinLines(lines) ==
    IF Len(lines) = 1 THEN lines[1] ELSE lines[1] \o <<NL>> \o JoinLines(Tail(lines))

BeginsWithHipsStatus(line) == line # <<>> /\ line[1] = HipsStatus

\* the lines with `added` put before every line that begins with hips_status
RECURSIVE AddBeforeEvery(_, _)
AddBeforeEvery(lines, added) ==
    IF lines = <<>> THEN <<>>
    ELSE (IF BeginsWithHipsStatus(lines[1]) THEN <<added, lines[1]>> ELSE <<lines[1]>>)
         \o AddBeforeEvery(Tail(lines), added)

\* the lines with `added` put before the first line that begins with hips_status
RECURSIVE AddBeforeFirst(_, _)
AddBeforeFirst(lines, added) ==
    IF lines = <<>> THEN <<>>
    ELSE IF BeginsWithHipsStatus(lines[1]) THEN <<added>> \o lines
    ELSE <<lines[1]>> \o AddBeforeFirst(Tail(lines), added)

\* the hips_service_url line of the path whose response a request got last
LastServiceLine(q) == ServiceUrlLine(PropertiesUrl(BaseUrlOf(q), PathsOf(q)[Len(q.got)]))

GotDocument(q) == q.got # <<>> /\ ~Last(q.got).err /\ Last(q.got).status = 200

\* C8 as stated: the document returned for a 200 is the fetched text with exactly one
\* added line, hips_service_url = <base_url>/<path>, before the first line that begins
\* with hips_status, and the text unchanged when no line does.
C8_OneLineBeforeFirst ==
    \A r \in Slots :
        GotDocument(req[r]) =>
            req[r].data = Some(JoinLines(AddBeforeFirst(SplitLines(Last(req[r].got).text),
                                                        LastServiceLine(req[r]))))

\* C8 as amended: the line is added before every line that begins with hips_status;
\* every other line is unchanged and in its place, and a text with no such line is
\* returned unchanged.
C8_OneLineBeforeEvery ==
    \A r \in Slots :
        GotDocument(req[r]) =>
            req[r].data = Some(JoinLines(AddBeforeEvery(SplitLines(Last(req[r].got).text),
                                                        LastServiceLine(req[r]))))

\* a document whose second line begins with hips_status was fetched and patched
C8_Witness ==
    \E r \in Slots :
        /\ GotDocument(req[r])
        /\ Last(req[r].got).text = <<"creator_did", NL, HipsStatus>>
        /\ req[r].data = Some(<<"creator_did", NL>> \o LastServiceLine(req[r]) \o <<NL, HipsStatus>>)

\* the links request has its response, and the Butler gave a location for the dataset
Located == lk.pc = "done" /\ lk.image_uri # None

\* C9: every DataLink result of a links request has an access URL of scheme http or
\* https; a resolved location of any other scheme is either converted to a signed
\* http(s) URL by a signer or ends the request in a 500, and is never in a result as is.
C9_AccessUrlIsHttp ==
    /\ (lk.pc = "done" /\ lk.result # None) =>
            SchemeOf(lk.result[1].image_url) \in {"http", "https"}
    /\ (Located /\ lk.image_uri[1].scheme \notin {"http", "https"}) =>
            \/ lk.status = 500 /\ lk.result = None
            \/ /\ lk.status = 200 /\ lk.result # None
               /\ lk.signer \in StorageBackends
               /\ "sign" \in Range(lk.steps)
               /\ lk.result[1].image_url #
                    <<lk.image_uri[1].scheme, "://", lk.image_uri[1].netloc,
                      lk.image_uri[1].path>>

\* a gs location was signed by the GCS signer and the result holds the https URL
C9_Witness ==
    /\ Located /\ lk.image_uri[1].scheme = "gs"
    /\ lk.status = 200 /\ lk.signer = "GCS"
    /\ lk.result # None /\ SchemeOf(lk.result[1].image_url) = "https"

\* an s3 location reached the service, which signs nothing: the request ended in a 500
C9_WitnessFault ==
    /\ Located /\ lk.via = "service" /\ lk.image_uri[1].scheme = "s3"
    /\ lk.status = 500 /\ lk.result = None

\* C10: when the resolved location has scheme http or https, the access URL of the
\* result is exactly the string form of that location, no signer is invoked, and the
\* result echoes the request identifier unchanged.
C10_HttpLocationPassesThrough ==
    (Located /\ lk.image_uri[1].scheme \in {"http", "https"}) =>
        /\ lk.status = 200 /\ lk.result # None
        /\ lk.result[1].image_url =
                <<lk.image_uri[1].scheme, "://", lk.image_uri[1].netloc, lk.image_uri[1].path>>
        /\ lk.signer = "none" /\ lk.expiry = 0
        /\ "sign" \notin Range(lk.steps)
        /\ lk.result[1].id = lk.id

\* the handler answered for a location the Butler server had signed already
C10_Witness ==
    /\ Located /\ lk.via = "handler"
    /\ lk.image_uri[1] = ResourcePath("https", "presigned-url.example.com",
                                      "/image?X-Amz-Signature=abcdef")
    /\ lk.result # None
    /\ lk.result[1].image_url = <<"https", "://", "presigned-url.example.com",
                                  "/image?X-Amz-Signature=abcdef">>
    /\ lk.result[1].id = <<"butler", "://", "dp02", "/", KnownUuid>>

\* C11: a resolved location that is a raw object-store URI (scheme other than http or
\* https) gives a result whose access URL was signed for GET alone, with an expiry equal
\* to the configured links lifetime, for the GCS and the S3 backend and every lifetime.
C11_SignedExpiryIsLifetime ==
    (Located /\ lk.image_uri[1].scheme \notin {"http", "https"} /\ lk.result # None) =>
        /\ lk.signer \in StorageBackends
        /\ lk.method = "GET"
        /\ lk.expiry = config.links_lifetime

\* C11's case: a raw location was signed while the configured lifetime is two hours
C11_Reached ==
    /\ Located /\ lk.image_uri[1].scheme = "s3" /\ lk.result # None
    /\ lk.signer = "S3" /\ config.links_lifetime = 7200

\* C12: in every result, the cutout URL is absent when the dataset type is "raw";
\* otherwise it is the discovery result the request was given (the configured cutout
\* URL in the handler), so present and equal to it when discovery returned one.
C12_CutoutSuppressedForRawOnly ==
    (lk.pc = "done" /\ lk.result # None) =>
        /\ lk.dataset_type = "raw" => lk.result[1].cutout_sync_url = None
        /\ lk.dataset_type # "raw" =>
                lk.result[1].cutout_sync_url =
                    (IF lk.via = "service" THEN lk.cutout_sync_url ELSE <<CutoutSyncUrl>>)

\* a raw dataset resolved while discovery had returned a cutout service
C12_Witness ==
    /\ lk.pc = "done" /\ lk.via = "service" /\ lk.result # None
    /\ lk.dataset_type = "raw"
    /\ lk.cutout_sync_url = <<CutoutSyncUrl>>
    /\ lk.result[1].cutout_sync_url = None

\* an identifier that is not butler://<label>/<uuid>: an empty label, an empty key, a
\* missing or wrong scheme, or a key that is no UUID
Malformed(id) ==
    ~(/\ Len(id) = 5 /\ id[1] = "butler" /\ id[2] = "://" /\ id[3] # "" /\ id[4] = "/"
      /\ id[5] \in {KnownUuid, OtherUuid})

\* C13: a links request for a malformed identifier ends in the malformed-identifier
\* outcome (422), never in a 500 and never in a 404, whatever the label.
C13_MalformedIsRejected ==
    (lk.pc = "done" /\ Malformed(lk.id)) => lk.status = 422

\* C13's case: the handler was given a key of hex digits and dashes that is no UUID
C13_Reached ==
    /\ lk.pc = "done" /\ lk.via = "handler"
    /\ lk.id = <<"butler", "://", "dp02", "/", "abc-def">>

\* the text holds s, fragment by fragment
Contains(text, s) ==
    \E i \in 1..(Len(text) - Len(s) + 1) : SubSeq(text, i, i + Len(s) - 1) = s

\* C14: the malformed-identifier error produced for a raw identifier string s carries s
\* in its message, exactly as the client sent it.
C14_MalformedErrorCarriesId ==
    (lk.pc = "done" /\ lk.raised = "IdentifierMalformedError") =>
        Contains(lk.detail, lk.id)

\* C14's case: build_datalink raised IdentifierMalformedError for butler://dp02/Not-A-UUID
C14_Reached ==
    /\ lk.pc = "done" /\ lk.raised = "IdentifierMalformedError"
    /\ lk.id = <<"butler", "://", "dp02", "/", "Not-A-UUID">>

\* C15: for a well-formed identifier, a resolution that finds no repository under the
\* label or no dataset under the key ends the request in a 404 with no result, never in
\* a 5xx; any other failure of the Butler is not reported as a 404.
C15_UnresolvedIsNotFound ==
    (lk.pc = "done" /\ ~Malformed(lk.id) /\ "resolve" \in Range(lk.steps)) =>
        /\ (/\ lk.raised # "ButlerFailure"
            /\ lk.id[3] \notin KnownLabels \/ lk.id[5] \notin KnownKeys) =>
                lk.status = 404 /\ lk.result = None
        /\ lk.raised = "ButlerFailure" => lk.status >= 500 /\ lk.result = None

\* the service found no repository under the label of a well-formed identifier
C15_Witness ==
    /\ lk.pc = "done" /\ lk.via = "service" /\ lk.status = 404
    /\ lk.id = <<"butler", "://", "invalid-repo", "/", KnownUuid>>
    /\ Contains(lk.detail, lk.id)

\* C16: discovery is best-effort: whatever way the lookup fails, get_cutout_sync_url
\* yields absent and the request goes on to build_datalink; a discovery failure never
\* ends a request.
C16_DiscoveryNeverEndsRequest ==
    (lk.pc = "done" /\ lk.via = "service") =>
        /\ "resolve" \in Range(lk.steps)
        /\ lk.raised # "DiscoveryError"

\* C16's case: the discovery lookup for a well-formed identifier raised
C16_Reached ==
    lk.pc = "done" /\ lk.via = "service" /\ lk.steps = <<"parse", "discover">>

\* how many times a step was taken
Count(steps, x) == Cardinality({i \in DOMAIN steps : steps[i] = x})

\* C17: a links request ends in exactly one of Rendered (200 with a DataLink), Rejected
\* (malformed identifier, 422), NotFound (no repository or no dataset, 404) and Fault
\* (unsigned location or signing error, 500; a failure of the Butler itself is counted
\* as a fault of the environment); a DataLink is produced in Rendered alone, and the
\* catalog lookup, the location retrieval and discovery are each tried at most once.
C17_OneTerminalState ==
    lk.pc = "done" =>
        /\ lk.status \in {200, 422, 404, 500}
        /\ lk.result # None <=> lk.status = 200
        /\ lk.status = 422 => Malformed(lk.id)
        /\ lk.status = 404 => lk.id[3] \notin KnownLabels \/ lk.id[5] \notin KnownKeys
        /\ lk.status = 500 =>
                \/ Located /\ lk.image_uri[1].scheme \notin {"http", "https"}
                \/ lk.raised = "ButlerFailure"
        /\ \A x \in {"resolve", "locate", "discover"} : Count(lk.steps, x) <= 1

\* C17's case: a request ended in a 500 with no location retrieved and no Butler failure
C17_Reached ==
    /\ lk.pc = "done" /\ lk.status = 500
    /\ lk.image_uri = None /\ lk.raised # "ButlerFailure"

\* C18: every 200 response of the links endpoint carries the header
\* Cache-Control: max-age=N, N the configured links lifetime in whole seconds.
C18_CacheControlIsLifetime ==
    (lk.pc = "done" /\ lk.via = "handler" /\ lk.status = 200) =>
        /\ "Cache-Control" \in DOMAIN lk.headers
        /\ lk.headers["Cache-Control"] = "max-age=" \o ToString(config.links_lifetime)

\* C18's case: the endpoint answered 200 for a location the Butler server had signed
C18_Reached ==
    /\ lk.pc = "done" /\ lk.via = "handler" /\ lk.status = 200
    /\ lk.image_uri # None /\ lk.image_uri[1].scheme = "https"

\* the same query with the parameter names in any other letter case
RECURSIVE Recasings(_)
Recasings(query) ==
    IF query = <<>> THEN {<<>>}
    ELSE {<<Pair(k, query[1][2])>> \o rest :
            k \in {n \in ParamNames : Lower(n) = Lower(query[1][1])},
            rest \in Recasings(Tail(query))}

\* C19: query parameter names are matched without regard to case: for every request and
\* every re-casing of its parameter names, the handler is called with the same
\* parameters, under their lower-case names, and no value is altered.
C19_RecasingChangesNothing ==
    mw.pc = "called" =>
        /\ \A i \in DOMAIN mw.query_string :
                /\ mw.query_string[i][1] \in {"id", "responseformat"}
                /\ \E j \in DOMAIN mw.query : mw.query[j][2] = mw.query_string[i][2]
        /\ \A other \in Recasings(mw.query) :
                HandlerParams(LowercasedQuery(other)) = mw.params

\* C19's case: a request that names id three times, in two letter cases
C19_Reached ==
    /\ mw.pc = "called"
    /\ mw.query = <<Pair("id", "butler://dp02/a"), Pair("ID", "butler://dp02/b"),
                    Pair("id", "votable")>>

\* the text a build of this request gives when every fetch gets the fixed response
FixedAggregate(q) ==
    AggregateFrom([q EXCEPT !.got = [i \in DOMAIN PathsOf(q) |->
                        remote[PropertiesUrl(BaseUrlOf(q), PathsOf(q)[i])]]], 1)

\* C20: with the remote responses fixed, under every interleaving of concurrent accesses
\* to a family, every access ends without error and returns the same text, the aggregate
\* of the fixed responses, and the entry of the cache for the family, once written, is
\* that text.
C20_RedundantBuildsAgree ==
    \A r \in Slots :
        /\ IsDone(r) => req[r].status = 200 /\ req[r].body = FixedAggregate(req[r])
        /\ (req[r].pc # "idle" /\ EntryOf(req[r]) # None) =>
                EntryOf(req[r]) = Some(FixedAggregate(req[r]))

\* C20's case: two builds of the same family are in flight at once
C20_Reached ==
    /\ req[1].pc = "fetch" /\ req[2].pc = "fetch"
    /\ req[1].kind = "dataset" /\ req[2].kind = "dataset"
    /\ req[1].dataset = req[2].dataset

\* the entry of the cache under a key: str | None
EntryOfKey(k) ==
    IF k = DefaultKey THEN hips_list
    ELSE IF k \in DOMAIN hips_lists THEN Some(hips_lists[k]) ELSE None

\* request r ends its build in this step, having got a response for every configured path
FinishesBuild(r) ==
    /\ req[r].pc \in {"idle", "fetch"}
    /\ req'[r].pc = "done" /\ req'[r].status = 200
    /\ req'[r].nfetch = Len(PathsOfKey(req'[r]))
    /\ Len(req'[r].got) = Len(PathsOfKey(req'[r]))

\* C21: every cache entry is absent or the complete aggregate of one finished build of
\* its family: entries start absent, and an entry changes only by being removed or, in
\* the one step that ends a build, by becoming the aggregate of all that build's
\* responses; a build that is still fetching writes nothing.
C21_EntryIsFinishedAggregate ==
    /\ \A k \in Keys : EntryOfKey(k) = None
    /\ [][\A k \in Keys :
            EntryOfKey(k)' # EntryOfKey(k) =>
                \/ EntryOfKey(k)' = None
                \/ \E r \in Slots :
                        /\ FinishesBuild(r)
                        /\ KeyOf(req'[r]) = k
                        /\ EntryOfKey(k)' = Some(AggregateFrom(req'[r], 1))]_vars

\* a rebuild of two paths has replaced the text an earlier build of the family stored
C21_Witness ==
    \E r \in Slots :
        /\ IsDone(r) /\ req[r].kind = "dataset" /\ req[r].nfetch = 2
        /\ req[r].dataset \in over
        /\ first[req[r].dataset] \notin {None, Some(req[r].body)}
        /\ EntryOf(req[r]) = Some(req[r].body)

\* this step is a step of request r: it starts, gets a response, or its response is sent
StepOf(r) == req'[r].pc # req[r].pc \/ req'[r].nfetch # req[r].nfetch

\* the key of the request that takes a step in slot r
StepKey(r) == IF req[r].pc = "idle" THEN KeyOf(req'[r]) ELSE KeyOf(req[r])

\* the entry of every key but k is left as it was
OthersUnchanged(k) == \A g \in Keys \ {k} : EntryOfKey(g)' = EntryOfKey(g)

\* C22: operations on one family never touch another family's entry: every step of a
\* get_for_family(F), be it a hit, a miss, a fetch of the build or its end, and every
\* invalidation of F leaves the entry of every other family as it was, under every
\* interleaving of concurrent requests.
C22_OtherFamiliesUntouched ==
    [][/\ \A r \in Slots : StepOf(r) => OthersUnchanged(StepKey(r))
       /\ \A d \in Names : clear_dataset_cache(d) => OthersUnchanged(d)]_vars

\* dp02 was invalidated while populated and has been rebuilt from its two paths, and the
\* entry of dp1 still holds the text its first get returned
C22_Witness ==
    \E r \in Slots :
        /\ IsDone(r) /\ req[r].dataset = "dp02" /\ req[r].afterInval
        /\ req[r].status = 200 /\ req[r].nfetch = 2
        /\ "dp1" \in DOMAIN hips_lists
        /\ first["dp1"] = Some(hips_lists["dp1"])

\* C23: one build issues exactly one fetch per configured path, in configured order and
\* one after the other: the fetch in flight is that of path i, it is the i-th fetch of
\* the build, and the responses of paths 1..i-1 have all arrived; no path is fetched
\* again; a build of a family with n paths has issued exactly n fetches when it ends.
C23_OneFetchPerPathInOrder ==
    \A r \in Slots :
        /\ req[r].pc = "fetch" =>
                /\ req[r].i \in DOMAIN PathsOf(req[r])
                /\ req[r].nfetch = req[r].i
                /\ Len(req[r].got) = req[r].i - 1
        /\ (IsDone(r) /\ req[r].nfetch > 0) =>
                /\ req[r].nfetch = Len(PathsOf(req[r]))
                /\ Len(req[r].got) = Len(PathsOf(req[r]))

\* C23's case: a build of a family with three paths has ended
C23_Reached ==
    \E r \in Slots :
        IsDone(r) /\ req[r].nfetch > 0 /\ Len(PathsOf(req[r])) = 3

\* C24: a request cancelled while its build is in flight leaves no trace: no step of it,
\* from its start to its cancellation, changes a cache entry or the state of another
\* request, so the entry of its family is what the other requests made of it; and every
\* other build that ends still returns the aggregate of all its responses and stores it.
C24_CancelledBuildLeavesNoTrace ==
    [][\A r \in Slots :
            /\ (StepOf(r) /\ req'[r].pc \in {"fetch", "cancelled"}) =>
                    /\ \A k \in Keys : EntryOfKey(k)' = EntryOfKey(k)
                    /\ \A s \in Slots \ {r} : req'[s] = req[s]
            /\ (req[r].pc = "fetch" /\ req'[r].pc = "done" /\ req'[r].status = 200) =>
                    /\ Len(req'[r].got) = Len(PathsOf(req[r]))
                    /\ req'[r].body = AggregateFrom(req'[r], 1)
                    /\ EntryOfKey(KeyOf(req[r]))' = Some(req'[r].body)]_vars

\* a build of dp02 was cancelled after its first path had given a document, and another
\* build of dp02 has ended, stored and returned a text that is not the cancelled one's
C24_Witness ==
    /\ req[1].pc = "cancelled" /\ req[1].dataset = "dp02" /\ req[1].lists # <<>>
    /\ IsDone(2) /\ req[2].dataset = "dp02" /\ req[2].status = 200 /\ req[2].nfetch = 2
    /\ hips_lists["dp02"] = req[2].body
    /\ req[2].body # JoinLists(req[1].lists)

\* the place of a step in an order of steps
Rank(order, x) == CHOOSE i \in DOMAIN order : order[i] = x

\* the steps taken are steps of the order, each after the ones the order puts before it
InOrder(steps, order) ==
    /\ Range(steps) \subseteq Range(order)
    /\ \A i, j \in DOMAIN steps : i < j => Rank(order, steps[i]) < Rank(order, steps[j])

C26_InvalidationOutlastsBuilds ==
    /\ \A d \in Names : d \in cleared => EntryOfKey(d) = None
    /\ \A r \in Slots :
            (req[r].kind = "dataset" /\ req[r].afterInval /\ PathsOf(req[r]) # <<>>) =>
                req[r].nfetch > 0

\* what the code does for C26: invalidate(F) removes the entry of F and stops no build. While no
\* access to F has started since, the entry is absent unless a build of F that was in
\* flight at the invalidation has ended since and stored its result; the first access
\* after the invalidation fetches afresh if no such build has ended, and is otherwise
\* served the text that build stored, with no fetch.
C26_InvalidationStopsNoBuild ==
    /\ \A d \in Names : d \in cleared => (EntryOfKey(d) = None <=> first[d] = None)
    /\ \A r \in Slots :
            (req[r].kind = "dataset" /\ req[r].afterInval /\ PathsOf(req[r]) # <<>>) =>
                /\ ~req[r].later => req[r].nfetch > 0
                /\ req[r].later => req[r].nfetch = 0
                /\ (req[r].later /\ IsDone(r)) =>
                        req[r].status = 200 /\ EntryOf(req[r]) = Some(req[r].body)

\* the first access to dp02 after its invalidation was served, with no fetch, a text
\* stored by a build that was in flight when dp02 was invalidated
C26_Witness ==
    \E r \in Slots :
        /\ IsDone(r) /\ req[r].dataset = "dp02" /\ req[r].afterInval /\ req[r].later
        /\ req[r].nfetch = 0 /\ req[r].body # <<>>

\* the request is a get of the default list or of a configured family
OnConfigured(q) == q.kind = "default" \/ (q.kind = "dataset" /\ Configured(q.dataset))

\* no fetch of the request has raised
NoFetchRaised(q) == \A i \in DOMAIN q.got : ~q.got[i].err

\* C27: a get on a configured family whose build completes always returns a text: at the
\* step in which it ends, be it a hit or the end of its build, it ends with a 200 whose
\* body is the entry as the cache holds it at that instant (the text just stored, or the
\* text found cached), under every interleaving with invalidations and other requests;
\* it never fails on a missing entry.
C27_CompletedGetReturnsText ==
    [][\A r \in Slots :
            (/\ req[r].pc \in {"idle", "fetch"} /\ req'[r].pc = "done"
             /\ OnConfigured(req'[r]) /\ NoFetchRaised(req'[r])) =>
                /\ req'[r].status = 200
                /\ \E k \in Keys : k = KeyOf(req'[r]) /\ EntryOfKey(k)' = Some(req'[r].body)]_vars

\* a build of dp02 ended, stored and returned its text after dp02 had been invalidated
\* while the build was in flight
C27_Witness ==
    \E r \in Slots :
        /\ IsDone(r) /\ req[r].dataset = "dp02" /\ req[r].nfetch = 2
        /\ "dp02" \in cleared
        /\ req[r].status = 200 /\ req[r].body # <<>>
        /\ EntryOf(req[r]) = Some(req[r].body)

\* C28: a build ended by an error raised out of a fetch stores nothing: the step that
\* ends it changes no cache entry, so in a sequential run the entry of its family is
\* still as the request found it (absent stays absent) and every other entry is
\* unchanged; and an access that finds the entry absent starts a new build with the
\* fetch of the first path and nothing kept of the failed build.
C28_FailedBuildStoresNothing ==
    /\ [](\A r \in Slots :
            (IsDone(r) /\ req[r].got # <<>> /\ Last(req[r].got).err) =>
                /\ req[r].status = 500
                /\ ~Truthy(EntryOf(req[r]))
                /\ req[r].kind = "dataset" => EntryOf(req[r]) = None)
    /\ [][\A r \in Slots :
            /\ (req[r].pc = "fetch" /\ req'[r].pc = "done" /\ Last(req'[r].got).err) =>
                    \A k \in Keys : EntryOfKey(k)' = EntryOfKey(k)
            /\ (/\ req[r].pc = "idle" /\ req'[r].pc # "idle"
                /\ req'[r].kind = "dataset" /\ Configured(req'[r].dataset)
                /\ PathsOf(req'[r]) # <<>>
                /\ req'[r].dataset \notin DOMAIN hips_lists) =>
                    /\ req'[r].pc = "fetch" /\ req'[r].i = 1 /\ req'[r].nfetch = 1
                    /\ req'[r].got = <<>> /\ req'[r].lists = <<>>]_vars

\* the fetch of the second path raised after the first path had given a document: the
\* family has no entry, and the entry of the other family is there
C28_Witness ==
    \E r \in Slots :
        /\ IsDone(r) /\ req[r].kind = "dataset" /\ req[r].status = 500
        /\ Len(req[r].got) = 2 /\ req[r].lists # <<>>
        /\ req[r].dataset \notin DOMAIN hips_lists
        /\ hips_lists # <<>>

\* the family configured as default
DefaultFamily == config.hips_default_dataset

\* the request is served the text the first get of its key returned, with no fetch
ServedOldText(q) ==
    /\ q.nfetch = 0
    /\ q.pc = "done" => q.status = 200 /\ Some(q.body) = first[KeyOf(q)]

\* C29: the default list and the per-family entries are two separate stores: no step of a
\* get_for_family and no invalidation of a family or of all families changes the cached
\* default list, and no step of a get_default and no invalidation of the default list
\* changes a per-family entry; after the per-family entry of the default family has been
\* invalidated a get_default is still served its old text with no fetch, and after the
\* default list has been invalidated a get of the default family is.
C29_SeparateStores ==
    /\ [](\A r \in Slots :
            /\ (req[r].kind = "default" /\ req[r].later /\ DefaultFamily \in cleared) =>
                    ServedOldText(req[r])
            /\ (/\ req[r].kind = "dataset" /\ req[r].dataset = DefaultFamily
                /\ req[r].later /\ DefaultKey \in cleared) =>
                    ServedOldText(req[r]))
    /\ [][/\ \A r \in Slots :
                StepOf(r) => IF StepKey(r) = DefaultKey THEN UNCHANGED hips_lists
                             ELSE UNCHANGED hips_list
          /\ clear_cache_default => UNCHANGED hips_lists
          /\ clear_cache => UNCHANGED hips_list
          /\ \A d \in Names : clear_dataset_cache(d) => UNCHANGED hips_list]_vars

\* C29's case: a get_default after the per-family entry of the default family was
\* invalidated, the default list having been built before
C29_Reached ==
    \E r \in Slots :
        /\ IsDone(r) /\ req[r].kind = "default" /\ req[r].later
        /\ DefaultFamily \in cleared

\* the paths of a request that answered 200 with a non-empty document
NonEmptyDocuments(q) ==
    {i \in DOMAIN q.got : ~q.got[i].err /\ q.got[i].status = 200 /\ q.got[i].text # <<>>}

\* C30: a 200 with an empty body is treated like a failed fetch: it adds no entry and no
\* separator. The entries joined are as many as the paths that gave a non-empty
\* document and none of them is empty, so (the documents here holding no newline of
\* their own) the aggregate neither begins nor ends with a newline and has no two
\* newlines in a row.
C30_EmptyDocumentIsSkipped ==
    \A r \in Slots :
        (IsDone(r) /\ req[r].status = 200 /\ req[r].nfetch > 0) =>
            /\ Len(req[r].lists) = Cardinality(NonEmptyDocuments(req[r]))
            /\ \A i \in DOMAIN req[r].lists : req[r].lists[i] # <<>>
            /\ req[r].body = IF req[r].lists = <<>> THEN <<>> ELSE JoinLines(req[r].lists)
            /\ req[r].body # <<>> => req[r].body[1] # NL /\ Last(req[r].body) # NL
            /\ \A i \in 1..(Len(req[r].body) - 1) :
                    ~(req[r].body[i] = NL /\ req[r].body[i + 1] = NL)

\* of three paths the second answered 200 with an empty body: the aggregate is the first
\* document, one newline, the third document
C30_Witness ==
    \E r \in Slots :
        /\ IsDone(r) /\ req[r].status = 200 /\ Len(req[r].got) = 3
        /\ req[r].got[1] = Response(200, <<"creator_did">>)
        /\ req[r].got[2] = Response(200, <<>>)
        /\ req[r].got[3] = Response(200, <<"creator_did">>)
        /\ req[r].body = <<"creator_did", NL, "creator_did">>

====
